---- MODULE Spec2Model ----
(***************************************************************************)
(* Document operations of arangors' Collection (src/src/collection/mod.rs) *)
(* against an ArangoDB document endpoint.                                  *)
(*                                                                         *)
(* One caller issues create/read/read_header/update/replace/remove.  Each  *)
(* operation builds a request, makes its transport call and hands the body *)
(* of the response to deserialize_response.  The server side is the        *)
(* behaviour that the doc comments of the operations and the integration   *)
(* tests (src/tests/document.rs) describe.                                 *)
(***************************************************************************)
EXTENDS Integers, Sequences, FiniteSets, TLC

\* ------------------------------------------------------------------ bounds
NumKeys == 1
MaxRev == 2

Keys == 1 .. NumKeys
\* The values of the user attributes; 0 is an absent attribute.  A payload
\* may lack "no"; it always has its "testDescription".
NoValues == 0 .. 2
DescValues == 1 .. 1

\* ------------------------------------------------------------ option types
\* Option<T>: None is the empty sequence, Some(x) is <<x>>.
None == << >>
Some(x) == << x >>
IsSome(o) == o # << >>
Unwrap(o) == o[1]

BOOL == {TRUE, FALSE}

\* ---------------------------------------------------------- revision tokens
\* A revision is a string; a string is the sequence of its bytes.
\* RevToken(n) is "_<n>", the token the server issues for its n-th write.
RevToken(n) == << 95, 48 + n >>
\* "_d": well formed, never issued by the server ("_dsdsds_d" in the tests).
StaleToken == << 95, 100 >>
\* "_\n": holds a control character.
CtrlToken == << 95, 10 >>

IssuedTokens == { RevToken(n) : n \in 1 .. MaxRev }
InputTokens == IssuedTokens \cup { StaleToken, CtrlToken }

\* ------------------------------------------------------------------ payload
\* A payload is a JSON object with the user attributes "no" and "desc" and,
\* optionally, the system attributes _key and _rev; 0 is an absent attribute.
\* ser = FALSE is a value whose Serialize implementation fails.  As a request
\* body, json = TRUE is the JSON text of the object and json = FALSE is the
\* empty string.
Payload(no, desc, key, rev, ser) ==
    [no |-> no, desc |-> desc, key |-> key, rev |-> rev, ser |-> ser,
     json |-> TRUE]

UserAttrs == { Payload(n, d, 0, None, TRUE) : n \in NoValues, d \in DescValues }
\* "": no payload (the operation has none, the request body is empty).
NoPayload == [Payload(0, 0, 0, None, TRUE) EXCEPT !.json = FALSE]
BadPayload == Payload(0, 0, 0, None, FALSE)

\* ------------------------------------------------------------------ options
\* DocumentInsertOptions, DocumentUpdateOptions, DocumentReplaceOptions and
\* DocumentRemoveOptions as one record; an operation reads its own fields.
OverwriteModes == {"conflict", "ignore", "replace", "update"}

Options(wfs, rn, ro, si, ow, owm, ir, kn, mo) ==
    [waitForSync |-> wfs, returnNew |-> rn, returnOld |-> ro, silent |-> si,
     overwrite |-> ow, overwriteMode |-> owm, ignoreRevs |-> ir,
     keepNull |-> kn, mergeObjects |-> mo]

DefaultOptions ==
    Options(FALSE, FALSE, FALSE, FALSE, FALSE, "conflict", TRUE, TRUE, TRUE)

InsertOptionsSet ==
    { [DefaultOptions EXCEPT !.returnNew = rn,
                             !.returnOld = ro, !.silent = si,
                             !.overwrite = ow, !.overwriteMode = owm] :
        rn \in BOOL, ro \in BOOL, si \in BOOL, ow \in BOOL,
        owm \in OverwriteModes }

UpdateOptionsSet ==
    { [DefaultOptions EXCEPT !.returnNew = rn, !.returnOld = ro,
                             !.silent = si, !.ignoreRevs = ir] :
        rn \in BOOL, ro \in BOOL, si \in BOOL, ir \in BOOL }

ReplaceOptionsSet == UpdateOptionsSet

RemoveOptionsSet ==
    { [DefaultOptions EXCEPT !.returnOld = ro, !.silent = si] :
        ro \in BOOL, si \in BOOL }

\* DocumentReadOptions: IfNoneMatch(value) | IfMatch(value) | NoHeader.
ReadOptions(tag, value) == [tag |-> tag, value |-> value]
NoHeader == ReadOptions("NoHeader", << >>)
ReadOptionsSet ==
    { NoHeader } \cup
    { ReadOptions(t, v) : t \in {"IfMatch", "IfNoneMatch"}, v \in InputTokens }

\* ------------------------------------------------------------- query string
\* serde_qs::to_string(&options): the set of key=value pairs of the fields
\* that differ from their default.
BoolText(b) == IF b THEN "true" ELSE "false"

QueryPair(opts, field) ==
    IF opts[field] = DefaultOptions[field]
    THEN {}
    ELSE { << field, IF field = "overwriteMode" THEN opts[field]
                     ELSE BoolText(opts[field]) >> }

QueryOf(opts, fields) == UNION { QueryPair(opts, f) : f \in fields }

InsertFields ==
    {"waitForSync", "returnNew", "returnOld", "silent", "overwrite",
     "overwriteMode"}
UpdateFields ==
    {"waitForSync", "returnNew", "returnOld", "silent", "ignoreRevs",
     "keepNull", "mergeObjects"}
ReplaceFields ==
    {"waitForSync", "returnNew", "returnOld", "silent", "ignoreRevs"}
RemoveFields == {"waitForSync", "returnOld", "silent"}

\* ------------------------------------------------------------------ request
\* http::Request: method, the key joined to the document base url, the query,
\* the headers (name, value) and the body.
Request(method, key, query, headers, body) ==
    [method |-> method, key |-> key, query |-> query, headers |-> headers,
     body |-> body]
NoRequest == Request("NONE", 0, {}, {}, NoPayload)

\* http::HeaderValue::try_from(String): every byte must be visible ASCII,
\* a tab or >= 128; the bytes are kept as they are.
IsValidHeaderByte(b) == (b >= 32 /\ b # 127) \/ b = 9
IsValidHeaderValue(tok) == \A i \in 1 .. Len(tok) : IsValidHeaderByte(tok[i])

\* A resolver with the names of its two headers exchanged.
make_header_exchanged(document_read_options) ==
    CASE document_read_options.tag = "IfNoneMatch" ->
            IF IsValidHeaderValue(document_read_options.value)
            THEN [panic |-> FALSE,
                  header |-> Some(<< "if-match", document_read_options.value >>)]
            ELSE [panic |-> TRUE, header |-> None]
      [] document_read_options.tag = "IfMatch" ->
            IF IsValidHeaderValue(document_read_options.value)
            THEN [panic |-> FALSE,
                  header |-> Some(<< "if-none-match", document_read_options.value >>)]
            ELSE [panic |-> TRUE, header |-> None]
      [] OTHER -> [panic |-> FALSE, header |-> None]

\* Create header name and header value from read_options.
\* None: no header; Some(pair); "panic" when unwrap() meets an invalid value.
make_header_from_options(document_read_options) ==
    CASE document_read_options.tag = "IfNoneMatch" ->
            IF IsValidHeaderValue(document_read_options.value)
            THEN [panic |-> FALSE,
                  header |-> Some(<< "if-none-match", document_read_options.value >>)]
            ELSE [panic |-> TRUE, header |-> None]
      [] document_read_options.tag = "IfMatch" ->
            IF IsValidHeaderValue(document_read_options.value)
            THEN [panic |-> FALSE,
                  header |-> Some(<< "if-match", document_read_options.value >>)]
            ELSE [panic |-> TRUE, header |-> None]
      [] OTHER -> [panic |-> FALSE, header |-> None]

\* ------------------------------------------------------------ stored documents
\* The collection's name; _id is "<collection name>/<_key>".
CollectionName == "coll"

\* DocumentHeader { _id, _key, _rev }.
DocumentHeader(key, rev) ==
    [id |-> << CollectionName, key >>, key |-> key, rev |-> rev]

\* A document: its header fields and its user attributes.
Doc(key, rev, no, desc) == [key |-> key, rev |-> rev, no |-> no, desc |-> desc]

\* The server's slot of a key: the document, or nothing.
Stored(rev, no, desc) == [present |-> TRUE, rev |-> rev, no |-> no, desc |-> desc]
NoDoc == [present |-> FALSE, rev |-> << >>, no |-> 0, desc |-> 0]

DocOf(key, slot) == Doc(key, slot.rev, slot.no, slot.desc)

\* ------------------------------------------------------------ response bodies
\* A response body: json = "object" is a JSON object with optional members
\* (env: the error envelope {error, code, errorNum, errorMessage}; hdr: _id,
\* _key and _rev; no, desc: user attributes; old, new: nested documents;
\* nulls: the object has a member whose value is null);
\* json = "none" is a body that is no JSON value (empty, or other text).
Body(json, env, hdr, no, desc, old, new) ==
    [json |-> json, env |-> env, hdr |-> hdr, no |-> no, desc |-> desc,
     old |-> old, new |-> new, nulls |-> FALSE]

EmptyObject == Body("object", None, None, 0, 0, None, None)
NoBody == Body("none", None, None, 0, 0, None, None)
ErrorBody(code, hdr) == Body("object", Some(code), hdr, 0, 0, None, None)
DocumentBody(key, slot) ==
    Body("object", None, Some(DocumentHeader(key, slot.rev)), slot.no,
         slot.desc, None, None)
WriteBody(hdr, old, new) == Body("object", None, hdr, 0, 0, old, new)

\* {"new": null}: an object that names no document at all.
NullMemberBody == [EmptyObject EXCEPT !.nulls = TRUE]

\* {}: the object has no member.
IsEmptyObject(body) ==
    /\ body.env = None /\ body.hdr = None /\ body.no = 0 /\ body.desc = 0
    /\ body.old = None /\ body.new = None /\ ~body.nulls

Response(status, body) == [status |-> status, body |-> body]
NoResponse == Response(0, NoBody)

\* ------------------------------------------------------------------ results
\* Result<_, ClientError> of an operation.  ok: kind is "Document",
\* "DocumentHeader", "Silent" or "Verbose"; an error: kind is the error kind.
\* kind "Panic" is an operation that unwound instead of returning.
Result(ok, kind, code, hdr, no, desc, old, new) ==
    [ok |-> ok, kind |-> kind, code |-> code, hdr |-> hdr, no |-> no,
     desc |-> desc, old |-> old, new |-> new]

NoResult == Result(FALSE, "none", 0, None, 0, 0, None, None)
Err(kind, code) == Result(FALSE, kind, code, None, 0, 0, None, None)
Panic == Err("Panic", 0)

\* ---------------------------------------------------- response interpretation
\* The error kind of a server error envelope.
ErrorKind(code) ==
    CASE code = 412 -> "PreconditionFailed"
      [] code = 404 -> "NotFound"
      [] OTHER -> "ServerError"

\* T::deserialize for the three result types.  A DocumentResponse is Silent
\* when the object is empty; any other object is Verbose, with the header,
\* old and new it holds (a null member holds nothing).
DeserializeAs(target, body) ==
    CASE target = "Document" ->
            Result(TRUE, "Document", 0, body.hdr, body.no, body.desc, None, None)
      [] target = "DocumentHeader" ->
            IF IsSome(body.hdr)
            THEN Result(TRUE, "DocumentHeader", 0, body.hdr, 0, 0, None, None)
            ELSE Err("MalformedResponse", 0)
      [] OTHER ->
            IF IsEmptyObject(body)
            THEN Result(TRUE, "Silent", 0, None, 0, 0, None, None)
            ELSE Result(TRUE, "Verbose", 0, body.hdr, 0, 0, body.old, body.new)

\* deserialize_response::<T>(text): the text of the body is all it is given.
deserialize_response(target, body) ==
    IF body.json # "object"
    THEN Err("MalformedResponse", 0)
    ELSE IF IsSome(body.env)
         THEN Err(ErrorKind(Unwrap(body.env)), Unwrap(body.env))
         ELSE DeserializeAs(target, body)

\* ------------------------------------------------------------------- server
\* What the server reads from a request.
QueryFlag(query, name, default) ==
    IF << name, "true" >> \in query THEN TRUE
    ELSE IF << name, "false" >> \in query THEN FALSE
    ELSE default

QueryMode(query) ==
    IF \E m \in OverwriteModes : << "overwriteMode", m >> \in query
    THEN CHOOSE m \in OverwriteModes : << "overwriteMode", m >> \in query
    ELSE IF QueryFlag(query, "overwrite", FALSE) THEN "replace" ELSE "conflict"

HeaderOf(req, name) ==
    IF \E h \in req.headers : h[1] = name
    THEN Some((CHOOSE h \in req.headers : h[1] = name)[2])
    ELSE None

\* 201 when the write was synced to disk, 202 when it was only accepted.
WriteStatus(query) == IF QueryFlag(query, "waitForSync", FALSE) THEN 201 ELSE 202
RemoveStatus(query) == IF QueryFlag(query, "waitForSync", FALSE) THEN 200 ELSE 202

\* The body of a successful write: nothing with silent, else the header and
\* the snapshots the query asks for.
WriteReply(query, status, hdr, old, new) ==
    IF QueryFlag(query, "silent", FALSE)
    THEN Response(status, EmptyObject)
    ELSE Response(status,
                  WriteBody(Some(hdr),
                            IF QueryFlag(query, "returnOld", FALSE) THEN old ELSE None,
                            IF QueryFlag(query, "returnNew", FALSE) THEN new ELSE None))

\* A partial update: the attributes the patch names take the patch's value.
Merge(slot, patch, rev) ==
    Stored(rev, IF patch.no # 0 THEN patch.no ELSE slot.no,
                IF patch.desc # 0 THEN patch.desc ELSE slot.desc)

\* One way the server can handle a request: its answer, the store and the
\* revision counter after it, and the slot it found (before).
Outcome(resp, st, nr, key, before) ==
    [resp |-> resp, store |-> st, nextRev |-> nr, key |-> key, before |-> before]

Reject(code, st, nr, key) ==
    Outcome(Response(code, ErrorBody(code,
                IF st[key].present /\ code = 412
                THEN Some(DocumentHeader(key, st[key].rev)) ELSE None)),
            st, nr, key, st[key])

\* A write that stores slot under key.
Accept(req, st, nr, key, slot, status) ==
    Outcome(WriteReply(req.query, status,
                       DocumentHeader(key, slot.rev),
                       IF st[key].present THEN Some(DocOf(key, st[key])) ELSE None,
                       Some(DocOf(key, slot))),
            [st EXCEPT ![key] = slot], nr + 1, key, st[key])

\* POST: insert, or what the overwrite mode says when the key is taken.
ServerInsert(req, st, nr) ==
    LET keys == IF req.body.key # 0 THEN {req.body.key}
                ELSE { k \in Keys : ~st[k].present }
        rev == RevToken(nr)
        fresh == Stored(rev, req.body.no, req.body.desc)
        mode == QueryMode(req.query)
        One(k) ==
            CASE ~st[k].present ->
                    IF nr <= MaxRev
                    THEN { Accept(req, st, nr, k, fresh, WriteStatus(req.query)) }
                    ELSE {}
              [] mode = "conflict" -> { Reject(409, st, nr, k) }
              [] mode = "ignore" ->
                    { Outcome(Response(WriteStatus(req.query),
                                       IF QueryFlag(req.query, "silent", FALSE)
                                       THEN EmptyObject ELSE NullMemberBody),
                              st, nr, k, st[k]) }
              [] mode = "replace" ->
                    IF nr <= MaxRev
                    THEN { Accept(req, st, nr, k, fresh, WriteStatus(req.query)) }
                    ELSE {}
              [] OTHER ->
                    IF nr <= MaxRev
                    THEN { Accept(req, st, nr, k, Merge(st[k], req.body, rev),
                                  WriteStatus(req.query)) }
                    ELSE {}
    IN UNION { One(k) : k \in keys }

\* GET: the document, unless a conditional header says otherwise.
ServerRead(req, st, nr) ==
    LET k == req.key
        ifMatch == HeaderOf(req, "if-match")
        ifNoneMatch == HeaderOf(req, "if-none-match")
    IN CASE ~st[k].present -> { Reject(404, st, nr, k) }
         [] IsSome(ifMatch) /\ Unwrap(ifMatch) # st[k].rev ->
                { Reject(412, st, nr, k) }
         [] IsSome(ifNoneMatch) /\ Unwrap(ifNoneMatch) = st[k].rev ->
                { Outcome(Response(304, NoBody), st, nr, k, st[k]) }
         [] OTHER ->
                { Outcome(Response(200, DocumentBody(k, st[k])), st, nr, k, st[k]) }

\* The revision precondition of PATCH and PUT: If-Match when it is given,
\* else the body's _rev unless ignoreRevs.
RevisionMismatch(req, slot) ==
    LET ifMatch == HeaderOf(req, "if-match")
    IN IF IsSome(ifMatch)
       THEN Unwrap(ifMatch) # slot.rev
       ELSE /\ ~QueryFlag(req.query, "ignoreRevs", TRUE)
            /\ IsSome(req.body.rev)
            /\ Unwrap(req.body.rev) # slot.rev

\* A server that modifies the document and leaves its revision as it was.
ServerModifyKeepRev(req, st, nr) ==
    LET k == req.key
        slot == IF req.method = "PATCH" THEN Merge(st[k], req.body, st[k].rev)
                ELSE Stored(st[k].rev, req.body.no, req.body.desc)
    IN CASE ~st[k].present -> { Reject(404, st, nr, k) }
         [] RevisionMismatch(req, st[k]) -> { Reject(412, st, nr, k) }
         [] OTHER ->
                IF nr <= MaxRev
                THEN { Accept(req, st, nr, k, slot, WriteStatus(req.query)) }
                ELSE {}

\* PATCH (partial) and PUT (full).
ServerModify(req, st, nr) ==
    LET k == req.key
        rev == RevToken(nr)
        slot == IF req.method = "PATCH" THEN Merge(st[k], req.body, rev)
                ELSE Stored(rev, req.body.no, req.body.desc)
    IN CASE ~st[k].present -> { Reject(404, st, nr, k) }
         [] RevisionMismatch(req, st[k]) -> { Reject(412, st, nr, k) }
         [] OTHER ->
                IF nr <= MaxRev
                THEN { Accept(req, st, nr, k, slot, WriteStatus(req.query)) }
                ELSE {}

\* DELETE.
ServerRemove(req, st, nr) ==
    LET k == req.key
        ifMatch == HeaderOf(req, "if-match")
    IN CASE ~st[k].present -> { Reject(404, st, nr, k) }
         [] IsSome(ifMatch) /\ Unwrap(ifMatch) # st[k].rev ->
                { Reject(412, st, nr, k) }
         [] OTHER ->
                { Outcome(WriteReply(req.query, RemoveStatus(req.query),
                                     DocumentHeader(k, st[k].rev),
                                     Some(DocOf(k, st[k])), None),
                          [st EXCEPT ![k] = NoDoc], nr, k, st[k]) }

ServerOutcomes(req, st, nr) ==
    CASE req.method = "POST" -> ServerInsert(req, st, nr)
      [] req.method = "GET" -> ServerRead(req, st, nr)
      [] req.method \in {"PATCH", "PUT"} -> ServerModify(req, st, nr)
      [] OTHER -> ServerRemove(req, st, nr)

\* -------------------------------------------------------------------- state
VARIABLES
    store,      \* the server: the slot of every key
    nextRev,    \* the server: the number of the next revision it issues
    inv,        \* the caller's invocation of a document operation
    created,    \* the caller's note of the document it created last
    other,      \* a second caller's invocation, through the same handle
    handle,     \* the Collection handle: name, base_url, document_base_url
    ren,        \* the invocation of rename on the handle
    target      \* the url a document operation built for a key string

vars == << store, nextRev, inv, created, other, handle, ren, target >>

\* inv.pc: "idle" (no call), "awaiting" (suspended at the transport call) or
\* "done" (returned).  calls counts the transport calls of the invocation;
\* resp is the response it received and before the slot the server found.
Invocation(pc, op, key, doc, opts, ropt, ifm, req, calls, resp, before, result) ==
    [pc |-> pc, op |-> op, key |-> key, doc |-> doc, opts |-> opts,
     ropt |-> ropt, ifm |-> ifm, req |-> req, calls |-> calls, resp |-> resp,
     before |-> before, result |-> result]

Idle ==
    Invocation("idle", "none", 0, NoPayload, DefaultOptions, NoHeader, None,
               NoRequest, 0, NoResponse, NoDoc, NoResult)

\* What the caller keeps of a create made with default options or with
\* returnNew only: the _key of the response and the payload it submitted.  The
\* note is dropped when the document of that key is mutated or removed.
Created(key, doc) == [key |-> key, no |-> doc.no, desc |-> doc.desc]
NotCreated == [key |-> 0, no |-> 0, desc |-> 0]

PlainCreate(i) ==
    /\ i.op = "create" /\ i.result.ok /\ IsSome(i.result.hdr)
    /\ i.opts \in { DefaultOptions, [DefaultOptions EXCEPT !.returnNew = TRUE] }

Note(i, st_before, st_after) ==
    IF PlainCreate(i) THEN Created(Unwrap(i.result.hdr).key, i.doc)
    ELSE IF created.key # 0 /\ st_after[created.key] # st_before[created.key]
         THEN NotCreated
         ELSE created

\* ------------------------------------------------------------ urls and handle
\* A string is a sequence of lexemes; a path segment is the string between
\* two slashes, and the empty segment at the end of a path is its trailing
\* slash.
MaxKeyLen == 5

KeyTokens == { "k", "/", "..", "?", "#" }

RECURSIVE Strings(_)
Strings(n) ==
    IF n = 0 THEN { << >> }
    ELSE Strings(n - 1)
         \cup { Append(t, c) : t \in { u \in Strings(n - 1) : Len(u) = n - 1 },
                               c \in KeyTokens }

IndexOf(text, token) ==
    IF \E i \in 1 .. Len(text) : text[i] = token
    THEN CHOOSE i \in 1 .. Len(text) :
             text[i] = token /\ \A j \in 1 .. i - 1 : text[j] # token
    ELSE 0

Before(text, token) ==
    IF IndexOf(text, token) = 0 THEN text
    ELSE SubSeq(text, 1, IndexOf(text, token) - 1)

After(text, token) == SubSeq(text, IndexOf(text, token) + 1, Len(text))

RECURSIVE Split(_)
Split(text) ==
    IF IndexOf(text, "/") = 0 THEN << text >>
    ELSE << Before(text, "/") >> \o Split(After(text, "/"))

\* The relative reference a string parses to: the fragment is cut at the
\* first "#", the query at the first "?" before it, the rest is the path.
Reference(text) ==
    LET nofrag == Before(text, "#")
        path   == Before(nofrag, "?")
    IN  [absolute |-> Len(path) > 0 /\ path[1] = "/",
         empty    |-> path = << >>,
         segments |-> IF Len(path) > 0 /\ path[1] = "/"
                      THEN Split(Tail(path)) ELSE Split(path),
         query    |-> IndexOf(nofrag, "?") # 0,
         fragment |-> IndexOf(text, "#") # 0]

RECURSIVE RemoveDots(_, _)
RemoveDots(segments, out) ==
    IF segments = << >> THEN out
    ELSE IF Head(segments) = << ".." >>
         THEN LET up == IF out = << >> THEN out
                        ELSE SubSeq(out, 1, Len(out) - 1)
              IN  IF Len(segments) = 1 THEN Append(up, << >>)
                  ELSE RemoveDots(Tail(segments), up)
         ELSE RemoveDots(Tail(segments), Append(out, Head(segments)))

Url(host, path, query, fragment) ==
    [host |-> host, path |-> path, query |-> query, fragment |-> fragment]

\* An input of join: a string, or the absolute url "http://evil/" followed
\* by the string.
Input(full, text) == [full |-> full, text |-> text]

Relative(text) == Input(FALSE, text)

Join(base, input) ==
    LET ref == Reference(input.text)
    IN  IF input.full
        THEN Url("evil", RemoveDots(ref.segments, << >>),
                 IF ref.query THEN "given" ELSE "none", ref.fragment)
        ELSE IF ref.empty
        THEN Url(base.host, base.path,
                 IF ref.query THEN "given" ELSE base.query, ref.fragment)
        ELSE IF ref.absolute
        THEN Url(base.host, RemoveDots(ref.segments, << >>),
                 IF ref.query THEN "given" ELSE "none", ref.fragment)
        ELSE Url(base.host,
                 RemoveDots(SubSeq(base.path, 1, Len(base.path) - 1)
                                \o ref.segments, << >>),
                 IF ref.query THEN "given" ELSE "none", ref.fragment)

DatabaseUrl == Url("server", << << "_db" >>, << "mydb" >>, << >> >>, "none", FALSE)

Names == { "coll", "renamed" }

Collection(name) ==
    [name              |-> name,
     base_url          |-> Join(DatabaseUrl,
                                Relative(<< "_api", "/", "collection", "/",
                                            name, "/" >>)),
     document_base_url |-> Join(DatabaseUrl,
                                Relative(<< "_api", "/", "document", "/",
                                            name, "/" >>))]

NoTarget == [op |-> "none"]

NoRename == [pc |-> "idle"]

Init ==
    /\ store = [k \in Keys |-> NoDoc]
    /\ nextRev = 1
    /\ inv = Idle
    /\ created = NotCreated
    /\ other = Idle
    /\ handle = Collection(CollectionName)
    /\ ren = NoRename
    /\ target = NoTarget

\* ------------------------------------------------------------------ inputs
CreatePayloads ==
    { [p EXCEPT !.key = k] : p \in UserAttrs, k \in {0} \cup Keys }
        \cup { BadPayload }

PayloadRevs == { None } \cup { Some(t) : t \in IssuedTokens \cup { StaleToken } }
ModifyPayloads ==
    { [p EXCEPT !.rev = r] : p \in UserAttrs, r \in PayloadRevs }
        \cup { BadPayload }

IfMatchHeaders == { None } \cup { Some(t) : t \in InputTokens }

\* ------------------------------------------------------------- the operations
\* The result type each operation deserializes the body into.
TargetOf(op) ==
    CASE op = "read" -> "Document"
      [] op = "read_header" -> "DocumentHeader"
      [] OTHER -> "DocumentResponse"

\* What building a request ends in: the request to send, or the result the
\* operation ends with before any transport call.
Built(early, req) == [early |-> early, req |-> req]

\* session.post / patch / request(req): the one transport call.
Send(i, built) ==
    IF built.early # NoResult
    THEN [i EXCEPT !.pc = "done", !.result = built.early]
    ELSE [i EXCEPT !.pc = "awaiting", !.req = built.req, !.calls = i.calls + 1]

\* A failure of serde_json::to_string that is not looked at.
SerializedAnyway(doc, req) == Built(NoResult, req)

\* serde_json::to_string(&doc)?
Serialized(doc, req) ==
    IF doc.ser THEN Built(NoResult, req) ELSE Built(Err("Serialization", 0), req)

\* An If-Match that falls back on the _rev of the payload.
WithIfMatchFromPayload(if_match_header, built) ==
    IF built.early # NoResult
    THEN built
    ELSE IF if_match_header = None
         THEN IF IsSome(built.req.body.rev)
              THEN Built(NoResult,
                         [built.req EXCEPT !.headers =
                             { << "if-match", Unwrap(built.req.body.rev) >> }])
              ELSE built
         ELSE IF IsValidHeaderValue(Unwrap(if_match_header))
              THEN Built(NoResult,
                         [built.req EXCEPT !.headers =
                             { << "if-match", Unwrap(if_match_header) >> }])
              ELSE Built(Panic, built.req)

\* build.header("If-Match", if_match_value) ... build.body(body).unwrap()
WithIfMatch(if_match_header, built) ==
    IF built.early # NoResult \/ if_match_header = None
    THEN built
    ELSE IF IsValidHeaderValue(Unwrap(if_match_header))
         THEN Built(NoResult,
                    [built.req EXCEPT !.headers =
                        { << "if-match", Unwrap(if_match_header) >> }])
         ELSE Built(Panic, built.req)

\* create_document asking for a silent answer whatever the caller's options.
CreateRequestSilent(doc, insert_options) ==
    Serialized(doc, Request("POST", 0,
                            QueryOf([insert_options EXCEPT !.silent = TRUE],
                                    InsertFields),
                            {}, doc))

\* create_document posting an empty body instead of the serialized payload.
CreateRequestEmptyBody(doc, insert_options) ==
    Serialized(doc, Request("POST", 0, QueryOf(insert_options, InsertFields),
                            {}, NoPayload))

\* create_document asking for the new document whatever the caller's options.
CreateRequestAlwaysNew(doc, insert_options) ==
    Serialized(doc, Request("POST", 0,
                            QueryOf([insert_options EXCEPT !.returnNew = TRUE],
                                    InsertFields),
                            {}, doc))

\* create_document without url.set_query: the options never reach the server.
CreateRequestNoQuery(doc, insert_options) ==
    Serialized(doc, Request("POST", 0, {}, {}, doc))

CreateRequest(doc, insert_options) ==
    Serialized(doc, Request("POST", 0, QueryOf(insert_options, InsertFields),
                            {}, doc))

ReadRequest(key, read_options) ==
    LET header == make_header_from_options(read_options)
    IN IF header.panic
       THEN Built(Panic, NoRequest)
       ELSE Built(NoResult,
                  Request("GET", key, {},
                          IF IsSome(header.header) THEN { Unwrap(header.header) }
                          ELSE {},
                          NoPayload))

\* update_document calling session.put instead of session.patch.
UpdateRequestAsPut(key, doc, update_options) ==
    Serialized(doc, Request("PUT", key, QueryOf(update_options, UpdateFields),
                            {}, doc))

\* update_document sending the stored document with the patch merged in.
UpdateRequestMerged(key, doc, update_options) ==
    Serialized(doc,
        Request("PATCH", key, QueryOf(update_options, UpdateFields), {},
                [doc EXCEPT !.no = IF doc.no # 0 THEN doc.no ELSE store[key].no,
                            !.desc = IF doc.desc # 0 THEN doc.desc
                                     ELSE store[key].desc]))

\* update_document without url.set_query: the options never reach the server.
UpdateRequestNoQuery(key, doc, update_options) ==
    Serialized(doc, Request("PATCH", key, {}, {}, doc))

UpdateRequest(key, doc, update_options) ==
    Serialized(doc, Request("PATCH", key, QueryOf(update_options, UpdateFields),
                            {}, doc))

\* replace_document building its request with Request::patch.
ReplaceRequestAsPatch(key, doc, replace_options, if_match_header) ==
    WithIfMatch(if_match_header,
        Serialized(doc, Request("PATCH", key,
                                QueryOf(replace_options, ReplaceFields), {}, doc)))

ReplaceRequest(key, doc, replace_options, if_match_header) ==
    WithIfMatch(if_match_header,
        Serialized(doc, Request("PUT", key,
                                QueryOf(replace_options, ReplaceFields), {}, doc)))

\* remove_document building its request with Request::get.
RemoveRequestAsGet(key, remove_options, if_match_header) ==
    WithIfMatch(if_match_header,
        Built(NoResult, Request("GET", key,
                                QueryOf(remove_options, RemoveFields), {},
                                NoPayload)))

RemoveRequest(key, remove_options, if_match_header) ==
    WithIfMatch(if_match_header,
        Built(NoResult, Request("DELETE", key,
                                QueryOf(remove_options, RemoveFields), {},
                                NoPayload)))

\* The invocation record of a call that has just been made.
Begin(op, key, doc, opts, ropt, ifm) ==
    [Idle EXCEPT !.op = op, !.key = key, !.doc = doc, !.opts = opts,
                 !.ropt = ropt, !.ifm = ifm]

create_document(doc, insert_options) ==
    /\ inv.pc = "idle"
    /\ inv' = Send(Begin("create", 0, doc, insert_options, NoHeader, None),
                   CreateRequest(doc, insert_options))
    /\ UNCHANGED << store, nextRev, created, other, handle, ren, target >>

read_document_with_options(key, read_options) ==
    /\ inv.pc = "idle"
    /\ inv' = Send(Begin("read", key, NoPayload, DefaultOptions, read_options, None),
                   ReadRequest(key, read_options))
    /\ UNCHANGED << store, nextRev, created, other, handle, ren, target >>

read_document_header_with_options(key, read_options) ==
    /\ inv.pc = "idle"
    /\ inv' = Send(Begin("read_header", key, NoPayload, DefaultOptions,
                         read_options, None),
                   ReadRequest(key, read_options))
    /\ UNCHANGED << store, nextRev, created, other, handle, ren, target >>

update_document(key, doc, update_options) ==
    /\ inv.pc = "idle"
    /\ inv' = Send(Begin("update", key, doc, update_options, NoHeader, None),
                   UpdateRequest(key, doc, update_options))
    /\ UNCHANGED << store, nextRev, created, other, handle, ren, target >>

replace_document(key, doc, replace_options, if_match_header) ==
    /\ inv.pc = "idle"
    /\ inv' = Send(Begin("replace", key, doc, replace_options, NoHeader,
                         if_match_header),
                   ReplaceRequest(key, doc, replace_options, if_match_header))
    /\ UNCHANGED << store, nextRev, created, other, handle, ren, target >>

remove_document(key, remove_options, if_match_header) ==
    /\ inv.pc = "idle"
    /\ inv' = Send(Begin("remove", key, NoPayload, remove_options, NoHeader,
                         if_match_header),
                   RemoveRequest(key, remove_options, if_match_header))
    /\ UNCHANGED << store, nextRev, created, other, handle, ren, target >>

\* An operation that reads the body out of a buffer the callers share: the
\* body is the one the other caller received, when it has received one.
InterpretShared(i, resp) ==
    LET peer == IF i = other THEN inv ELSE other
        body == IF peer.pc = "done" /\ peer.resp # NoResponse
                THEN peer.resp.body ELSE resp.body
    IN  [i EXCEPT !.pc = "done", !.resp = resp,
                  !.result = deserialize_response(TargetOf(i.op), body)]

\* The rest of an operation once the transport call has returned a response:
\* deserialize_response(<response>.body())? and Ok(resp).
Interpret(i, resp) ==
    [i EXCEPT !.pc = "done", !.resp = resp,
              !.result = deserialize_response(TargetOf(i.op), resp.body)]

\* The transport delivers the request, the server handles it, the response
\* comes back and the operation returns.
Respond ==
    /\ inv.pc = "awaiting"
    /\ \E out \in ServerOutcomes(inv.req, store, nextRev) :
          /\ store' = out.store
          /\ nextRev' = out.nextRev
          /\ inv' = [Interpret(inv, out.resp) EXCEPT !.before = out.before]
          /\ created' = Note(Interpret(inv, out.resp), store, out.store)
    /\ UNCHANGED << other, handle, ren, target >>

\* A transport failure reported as if the server had answered 500.
TransportFailAsServerError ==
    /\ inv.pc = "awaiting"
    /\ inv' = [inv EXCEPT !.pc = "done", !.result = Err("ServerError", 500)]
    /\ UNCHANGED << store, nextRev, created, other, handle, ren, target >>

\* A caller-side retry: the failed transport call is made again.
TransportRetry ==
    /\ inv.pc = "awaiting"
    /\ inv' = [inv EXCEPT !.calls = inv.calls + 1]
    /\ UNCHANGED << store, nextRev, created, other, handle, ren, target >>

\* The transport call returns an error: `.await?` returns it to the caller.
TransportFail ==
    /\ inv.pc = "awaiting"
    /\ inv' = [inv EXCEPT !.pc = "done", !.result = Err("Transport", 0)]
    /\ UNCHANGED << store, nextRev, created, other, handle, ren, target >>

\* The caller takes the result; the next operation can start.
Return ==
    /\ inv.pc = "done"
    /\ inv' = Idle
    /\ UNCHANGED << store, nextRev, created, other, handle, ren, target >>

\* The caller starts an operation when it has none running.
Start ==
    \/ /\ inv.pc = "idle"
       /\ \E doc \in CreatePayloads, o \in InsertOptionsSet :
             create_document(doc, o)
    \/ /\ inv.pc = "idle"
       /\ \E k \in Keys, r \in ReadOptionsSet : read_document_with_options(k, r)
    \/ /\ inv.pc = "idle"
       /\ \E k \in Keys, r \in ReadOptionsSet :
             read_document_header_with_options(k, r)
    \/ /\ inv.pc = "idle"
       /\ \E k \in Keys, doc \in ModifyPayloads, o \in UpdateOptionsSet :
             update_document(k, doc, o)
    \/ /\ inv.pc = "idle"
       /\ \E k \in Keys, doc \in ModifyPayloads, o \in ReplaceOptionsSet,
             h \in IfMatchHeaders : replace_document(k, doc, o, h)
    \/ /\ inv.pc = "idle"
       /\ \E k \in Keys, o \in RemoveOptionsSet, h \in IfMatchHeaders :
             remove_document(k, o, h)

Next ==
    \/ Start
    \/ Respond
    \/ TransportFail
    \/ Return

\* The operations against the database server.
Spec == Init /\ [][Next]_vars

\* ------------------------------------------------------- any response at all
\* The session hands back whatever status and body arrived; nothing makes the
\* other end a well-behaved database server.
WireStatuses == {200, 202, 304, 404, 412, 500}

WireBodies ==
    { EmptyObject, NullMemberBody, NoBody, ErrorBody(404, None),
      ErrorBody(412, None),
      DocumentBody(1, Stored(RevToken(1), 1, 1)),
      WriteBody(Some(DocumentHeader(1, RevToken(1))), None,
                Some(Doc(1, RevToken(1), 1, 1))) }

WireRespond ==
    /\ inv.pc = "awaiting"
    /\ \E status \in WireStatuses, body \in WireBodies :
          inv' = Interpret(inv, Response(status, body))
    /\ UNCHANGED << store, nextRev, created, other, handle, ren, target >>

NextWire ==
    \/ Start
    \/ WireRespond
    \/ TransportFail
    \/ Return

\* The operations against an arbitrary responder.
SpecWire == Init /\ [][NextWire]_vars

\* ------------------------------------------------- every option configuration
\* Every value of the four option structs.
AnyInsertOptions ==
    { [DefaultOptions EXCEPT !.waitForSync = wfs, !.returnNew = rn,
                             !.returnOld = ro, !.silent = si,
                             !.overwrite = ow, !.overwriteMode = owm] :
        wfs \in BOOL, rn \in BOOL, ro \in BOOL, si \in BOOL, ow \in BOOL,
        owm \in OverwriteModes }

AnyUpdateOptions ==
    { [DefaultOptions EXCEPT !.waitForSync = wfs, !.returnNew = rn,
                             !.returnOld = ro, !.silent = si,
                             !.ignoreRevs = ir, !.keepNull = kn,
                             !.mergeObjects = mo] :
        wfs \in BOOL, rn \in BOOL, ro \in BOOL, si \in BOOL, ir \in BOOL,
        kn \in BOOL, mo \in BOOL }

AnyReplaceOptions ==
    { [DefaultOptions EXCEPT !.waitForSync = wfs, !.returnNew = rn,
                             !.returnOld = ro, !.silent = si,
                             !.ignoreRevs = ir] :
        wfs \in BOOL, rn \in BOOL, ro \in BOOL, si \in BOOL, ir \in BOOL }

AnyRemoveOptions ==
    { [DefaultOptions EXCEPT !.waitForSync = wfs, !.returnOld = ro,
                             !.silent = si] :
        wfs \in BOOL, ro \in BOOL, si \in BOOL }

\* The payload of the calls that are made for their request alone.
SamplePayload == Payload(1, 1, 0, Some(StaleToken), TRUE)

\* The caller starts a write with any option configuration.
StartAnyOptions ==
    \/ /\ inv.pc = "idle"
       /\ \E o \in AnyInsertOptions : create_document(SamplePayload, o)
    \/ /\ inv.pc = "idle"
       /\ \E k \in Keys, o \in AnyUpdateOptions :
             update_document(k, SamplePayload, o)
    \/ /\ inv.pc = "idle"
       /\ \E k \in Keys, o \in AnyReplaceOptions, h \in IfMatchHeaders :
             replace_document(k, SamplePayload, o, h)
    \/ /\ inv.pc = "idle"
       /\ \E k \in Keys, o \in AnyRemoveOptions, h \in IfMatchHeaders :
             remove_document(k, o, h)

NextQuery ==
    \/ StartAnyOptions
    \/ TransportFail
    \/ Return

\* The writes with every option configuration, up to their transport call.
SpecQuery == Init /\ [][NextQuery]_vars

\* ------------------------------------------------------------------- rename
\* The invocation of rename: the name asked for, the name the handle had when
\* it was called, the url of the PUT and the result.
Rename(pc, new, was, to, result) ==
    [pc |-> pc, name |-> new, was |-> was, url |-> to, result |-> result]

\* The body of the response to the PUT: a CollectionInfo, an error envelope,
\* or a text that is no JSON value.
RenameReply(status, kind, code) == [status |-> status, kind |-> kind, code |-> code]

RenameReplies ==
    { RenameReply(200, "info", 0), RenameReply(409, "error", 409),
      RenameReply(404, "error", 404), RenameReply(502, "none", 0) }

RenameInterpret(reply) ==
    CASE reply.kind = "none" -> Err("MalformedResponse", 0)
      [] reply.kind = "error" -> Err(ErrorKind(reply.code), reply.code)
      [] OTHER -> Result(TRUE, "CollectionInfo", 0, None, 0, 0, None, None)

\* rename borrows the handle mutably: no document operation on the handle is
\* in progress while it runs.
rename(new) ==
    /\ ren.pc = "idle"
    /\ target = NoTarget
    /\ ren' = Rename("awaiting", new, handle.name,
                     Join(handle.base_url, Relative(<< "rename" >>)), NoResult)
    /\ UNCHANGED << store, nextRev, inv, created, other, handle, target >>

\* A rename that assigned self.name before the call.
RenameSettleAlways(result) ==
    /\ ren' = [ren EXCEPT !.pc = "done", !.result = result]
    /\ handle' = [handle EXCEPT !.name = ren.name]

\* "?" leaves rename before self.name is assigned.
RenameSettle(result) ==
    /\ ren' = [ren EXCEPT !.pc = "done", !.result = result]
    /\ handle' = IF result.ok THEN [handle EXCEPT !.name = ren.name] ELSE handle

RenameRespond ==
    /\ ren.pc = "awaiting"
    /\ \E reply \in RenameReplies : RenameSettle(RenameInterpret(reply))
    /\ UNCHANGED << store, nextRev, inv, created, other, target >>

RenameTransportFail ==
    /\ ren.pc = "awaiting"
    /\ RenameSettle(Err("Transport", 0))
    /\ UNCHANGED << store, nextRev, inv, created, other, target >>

RenameReturn ==
    /\ ren.pc = "done"
    /\ ren' = NoRename
    /\ UNCHANGED << store, nextRev, inv, created, other, handle, target >>

\* ------------------------------------------------------- document target url
KeyInputs ==
    { Input(full, text) :
        full \in BOOLEAN,
        text \in { t \in Strings(MaxKeyLen) :
                     ~ (Len(t) >= 2 /\ t[1] = "/" /\ t[2] = "/") } }

KeyOps == { "read", "read_header", "update", "replace", "remove" }

\* url.set_query(Some(query)) of the operations that send options.
SetQuery(op, built) ==
    IF op \in { "create", "update", "replace", "remove" }
    THEN [built EXCEPT !.query = "options"]
    ELSE built

DocumentUrl(op, _key) == SetQuery(op, Join(handle.document_base_url, _key))

Target(op, _key) ==
    [op |-> op, key |-> _key, name |-> handle.name, url |-> DocumentUrl(op, _key)]

BuildUrl(op, _key) ==
    /\ target' = Target(op, _key)
    /\ UNCHANGED << store, nextRev, inv, created, other, handle, ren >>

\* The operation that built the url has returned.
DropUrl ==
    /\ target # NoTarget
    /\ target' = NoTarget
    /\ UNCHANGED << store, nextRev, inv, created, other, handle, ren >>

NextHandle ==
    \/ \E new \in Names : rename(new)
    \/ RenameRespond
    \/ RenameTransportFail
    \/ RenameReturn
    \/ /\ ren.pc = "idle" /\ target = NoTarget
       /\ \E op \in KeyOps, _key \in KeyInputs : BuildUrl(op, _key)
    \/ /\ ren.pc = "idle" /\ target = NoTarget
       /\ BuildUrl("create", Relative(<< >>))
    \/ DropUrl

SpecHandle == Init /\ [][NextHandle]_vars

\* ----------------------------------------------------------- two callers
\* The arguments of one call of a document operation.
Call(op, key, doc, opts, ropt, ifm) ==
    [op |-> op, key |-> key, doc |-> doc, opts |-> opts, ropt |-> ropt,
     ifm |-> ifm]

\* The calls the two callers make through the handle they share.
ConcurrentCalls ==
    UNION { { Call("create", 0, Payload(1, 1, k, None, TRUE), DefaultOptions,
                   NoHeader, None),
              Call("read", k, NoPayload, DefaultOptions, NoHeader, None),
              Call("read_header", k, NoPayload, DefaultOptions, NoHeader, None),
              Call("update", k, Payload(2, 1, 0, None, TRUE),
                   [DefaultOptions EXCEPT !.returnNew = TRUE], NoHeader, None),
              Call("replace", k, Payload(0, 1, 0, None, TRUE), DefaultOptions,
                   NoHeader, Some(RevToken(1))),
              Call("remove", k, NoPayload, DefaultOptions, NoHeader, None) }
            : k \in Keys }

\* What the operation of a call builds from the arguments of the call.
RequestOf(c) ==
    CASE c.op = "create" -> CreateRequest(c.doc, c.opts)
      [] c.op \in {"read", "read_header"} -> ReadRequest(c.key, c.ropt)
      [] c.op = "update" -> UpdateRequest(c.key, c.doc, c.opts)
      [] c.op = "replace" -> ReplaceRequest(c.key, c.doc, c.opts, c.ifm)
      [] OTHER -> RemoveRequest(c.key, c.opts, c.ifm)

\* The first caller makes one of the calls.
StartCall(c) ==
    \/ c.op = "create" /\ create_document(c.doc, c.opts)
    \/ c.op = "read" /\ read_document_with_options(c.key, c.ropt)
    \/ c.op = "read_header" /\ read_document_header_with_options(c.key, c.ropt)
    \/ c.op = "update" /\ update_document(c.key, c.doc, c.opts)
    \/ c.op = "replace" /\ replace_document(c.key, c.doc, c.opts, c.ifm)
    \/ c.op = "remove" /\ remove_document(c.key, c.opts, c.ifm)

\* The second caller makes one of the calls, through &self of the same handle.
OtherStart(c) ==
    /\ other.pc = "idle"
    /\ other' = Send(Begin(c.op, c.key, c.doc, c.opts, c.ropt, c.ifm),
                     RequestOf(c))
    /\ UNCHANGED << store, nextRev, inv, created, handle, ren, target >>

OtherRespond ==
    /\ other.pc = "awaiting"
    /\ \E out \in ServerOutcomes(other.req, store, nextRev) :
          /\ store' = out.store
          /\ nextRev' = out.nextRev
          /\ other' = [Interpret(other, out.resp) EXCEPT !.before = out.before]
          /\ created' = IF created.key # 0
                           /\ out.store[created.key] # store[created.key]
                        THEN NotCreated ELSE created
    /\ UNCHANGED << inv, handle, ren, target >>

OtherTransportFail ==
    /\ other.pc = "awaiting"
    /\ other' = [other EXCEPT !.pc = "done", !.result = Err("Transport", 0)]
    /\ UNCHANGED << store, nextRev, inv, created, handle, ren, target >>

OtherReturn ==
    /\ other.pc = "done"
    /\ other' = Idle
    /\ UNCHANGED << store, nextRev, inv, created, handle, ren, target >>

NextConcurrent ==
    \/ /\ inv.pc = "idle"
       /\ \E c \in ConcurrentCalls : StartCall(c)
    \/ Respond
    \/ TransportFail
    \/ Return
    \/ \E c \in ConcurrentCalls : OtherStart(c)
    \/ OtherRespond
    \/ OtherTransportFail
    \/ OtherReturn

\* Two callers, one handle and one session, every interleaving.
SpecConcurrent == Init /\ [][NextConcurrent]_vars

\* ------------------------------------------------------------------- claims
WriteOps == {"create", "update", "replace", "remove"}
ReadOps == {"read", "read_header"}

\* The operation has returned.
Returned == inv.pc = "done"
\* The operation has returned after a response arrived.
Answered == inv.pc = "done" /\ inv.resp # NoResponse

\* The request of the invocation can be built: the payload serializes and
\* every revision that goes into a header is a valid header value.
Buildable ==
    /\ inv.doc.ser
    /\ IsSome(inv.ifm) => IsValidHeaderValue(Unwrap(inv.ifm))
    /\ inv.ropt.tag # "NoHeader" => IsValidHeaderValue(inv.ropt.value)

\* C1: an operation that received a response with a status >= 400 returns an
\* error, whatever the body holds.
C1_ErrorStatusIsError ==
    (Answered /\ inv.resp.status >= 400) => ~inv.result.ok

\* C2: the error kind follows the status code: 412 is PreconditionFailed, 404
\* is NotFound, any other status >= 400 is ServerError with that code (stated
\* for the responses whose body is an error envelope).
C2_KindFollowsStatus ==
    (Answered /\ inv.resp.status >= 400 /\ inv.resp.body.json = "object"
       /\ IsSome(inv.resp.body.env))
    => /\ ~inv.result.ok
       /\ inv.result.kind = ErrorKind(inv.resp.status)
       /\ inv.result.kind = "ServerError" => inv.result.code = inv.resp.status

\* C3: a write called with silent = true that received a success status
\* returns Silent, with no header, old or new, whatever the body holds.
C3_SilentIsSilent ==
    (Answered /\ inv.op \in WriteOps /\ inv.opts.silent
       /\ inv.resp.status \in 200 .. 299)
    => /\ inv.result.ok
       /\ inv.result.kind = "Silent"
       /\ inv.result.hdr = None /\ inv.result.old = None /\ inv.result.new = None

\* C4: an operation makes exactly one transport call: one while it waits, one
\* when it has returned; none only when its request could not be built.
C4_ExactlyOneTransportCall ==
    /\ inv.pc = "awaiting" => inv.calls = 1
    /\ Returned => /\ inv.calls <= 1
                   /\ inv.calls = 0 <=> ~Buildable
                   /\ inv.result.kind \in {"Serialization", "Panic"} <=> inv.calls = 0

\* C4 witness: a server error came back and the one call was not repeated.
C4_Witness ==
    /\ Answered /\ inv.calls = 1
    /\ inv.resp.status = 412 /\ inv.result.kind = "PreconditionFailed"

\* The slot of its key that the operation met: what the server found when it
\* handled the request, or what is stored when no response arrived.
Found == IF Answered THEN inv.before ELSE store[inv.key]

\* The operation returned something else than a transport failure.
NoTransportError == Returned /\ inv.result.kind # "Transport"

\* C5: a read or read_header with IfMatch(rev) of an existing document succeeds
\* when rev is the current revision and fails with PreconditionFailed when it
\* is not.
C5_IfMatchRead ==
    (NoTransportError /\ inv.op \in ReadOps /\ inv.ropt.tag = "IfMatch"
       /\ Found.present)
    => IF inv.ropt.value = Found.rev
       THEN inv.result.ok
       ELSE ~inv.result.ok /\ inv.result.kind = "PreconditionFailed"

\* C6: a read or read_header with IfNoneMatch(rev) of an existing document
\* returns an error when rev is the current revision and succeeds when it is
\* not.
C6_IfNoneMatchRead ==
    (NoTransportError /\ inv.op \in ReadOps /\ inv.ropt.tag = "IfNoneMatch"
       /\ Found.present)
    => IF inv.ropt.value = Found.rev THEN ~inv.result.ok ELSE inv.result.ok

\* C7: an unconditional remove of a stored key succeeds and leaves the key
\* not stored; a remove of a key that is not stored fails with NotFound.  So
\* of two removes in a row the first succeeds and the second is NotFound.
C7_RemoveTwice ==
    (Answered /\ inv.op = "remove")
    => /\ (inv.before.present /\ inv.ifm = None) => inv.result.ok
       /\ inv.result.ok => ~store[inv.key].present
       /\ ~inv.before.present
             => /\ ~inv.result.ok /\ inv.result.kind = "NotFound"
                /\ ~store[inv.key].present

\* C7 witness: after a document was created and removed, a remove of its key
\* came back NotFound.
C7_Witness ==
    /\ Answered /\ inv.op = "remove" /\ inv.ifm = None
    /\ nextRev > 1 /\ \A k \in Keys : ~store[k].present
    /\ inv.result.kind = "NotFound"

\* C8: replace and remove with an If-Match revision that is not the current
\* one fail with PreconditionFailed and leave the stored document as it was
\* (the payload of the replace being one that serializes).
C8_IfMatchMismatch ==
    (NoTransportError /\ inv.op \in {"replace", "remove"} /\ IsSome(inv.ifm)
       /\ inv.doc.ser /\ Found.present /\ Unwrap(inv.ifm) # Found.rev)
    => /\ ~inv.result.ok /\ inv.result.kind = "PreconditionFailed"
       /\ store[inv.key] = Found

\* C9: update and replace with ignoreRevs = false, no If-Match and a payload
\* _rev that is not the current revision fail with PreconditionFailed and do
\* not modify the document.
C9_PayloadRevMismatch ==
    (Answered /\ inv.op \in {"update", "replace"} /\ ~inv.opts.ignoreRevs
       /\ inv.ifm = None /\ IsSome(inv.doc.rev)
       /\ inv.before.present /\ Unwrap(inv.doc.rev) # inv.before.rev)
    => /\ ~inv.result.ok /\ inv.result.kind = "PreconditionFailed"
       /\ store[inv.key] = inv.before

\* C9 witness: an update whose payload names a superseded revision was refused.
C9_Witness ==
    /\ Answered /\ inv.op = "update" /\ ~inv.opts.ignoreRevs
    /\ inv.before.present /\ inv.before.rev = RevToken(2)
    /\ inv.doc.rev = Some(RevToken(1))
    /\ inv.result.kind = "PreconditionFailed"

ReplacingCreate ==
    /\ Answered /\ inv.op = "create" /\ inv.opts.overwriteMode = "replace"
    /\ ~inv.opts.silent /\ inv.before.present

\* What C11 promises of the result: Verbose, header present, new present and
\* equal to the payload, old absent unless returnOld, and a fresh _rev.
ReplacedResult ==
    /\ inv.result.ok /\ inv.result.kind = "Verbose"
    /\ IsSome(inv.result.hdr)
    /\ IsSome(inv.result.new)
    /\ Unwrap(inv.result.new).no = inv.doc.no
    /\ Unwrap(inv.result.new).desc = inv.doc.desc
    /\ ~inv.opts.returnOld => inv.result.old = None
    /\ Unwrap(inv.result.hdr).rev # inv.before.rev

C13_CreateReadRoundTrip ==
    (Answered /\ inv.op = "read" /\ created.key # 0 /\ inv.key = created.key)
    => /\ inv.ropt = NoHeader => inv.result.ok
       /\ inv.result.ok => /\ inv.result.kind = "Document"
                           /\ inv.result.no = created.no
                           /\ inv.result.desc = created.desc

\* C13 witness: the read after a create returned the attributes submitted.
C13_Witness ==
    /\ Answered /\ inv.op = "read" /\ inv.ropt = NoHeader
    /\ created.key # 0 /\ inv.key = created.key
    /\ created.no = 2 /\ created.desc = 1
    /\ inv.result.ok /\ inv.result.no = 2 /\ inv.result.desc = 1

\* The key an answered operation addressed: the key argument, or for a create
\* the _key of the payload, or else the one the server assigned.
Addressed ==
    IF inv.op # "create" THEN inv.key
    ELSE IF inv.doc.key # 0 THEN inv.doc.key
    ELSE IF IsSome(inv.result.hdr) THEN Unwrap(inv.result.hdr).key
    ELSE 0

\* The answered operation is a mutation of a stored document: an update, a
\* replace or a create that overwrites.
Mutation ==
    /\ inv.before.present
    /\ \/ inv.op \in {"update", "replace"}
       \/ inv.op = "create" /\ inv.opts.overwriteMode # "ignore"

FieldsOf(op) ==
    CASE op = "create" -> InsertFields
      [] op = "update" -> UpdateFields
      [] op = "replace" -> ReplaceFields
      [] op = "remove" -> RemoveFields
      [] OTHER -> {}

\* The operation's request is with the transport.
Sent == inv.pc = "awaiting"

\* C15: the query of the request of a write holds exactly the fields of the
\* operation's options whose value is not the default, each under one key with
\* the value the caller set, and no field that has its default value.
C15_QueryIsNonDefaultFields ==
    Sent
    => /\ \A p \in inv.req.query :
             /\ p[1] \in FieldsOf(inv.op)
             /\ inv.opts[p[1]] # DefaultOptions[p[1]]
             /\ IF p[1] = "overwriteMode"
                THEN p[2] = inv.opts.overwriteMode
                ELSE p[2] = (IF inv.opts[p[1]] THEN "true" ELSE "false")
       /\ \A f \in FieldsOf(inv.op) :
             inv.opts[f] # DefaultOptions[f]
             => \E p \in inv.req.query : p[1] = f
       /\ \A p1, p2 \in inv.req.query : p1[1] = p2[1] => p1 = p2

\* C15 witness: an update that sets keepNull, mergeObjects and ignoreRevs to
\* false and leaves the rest at its default went out with these three keys.
C15_Witness ==
    /\ Sent /\ inv.op = "update"
    /\ inv.opts = [DefaultOptions EXCEPT !.keepNull = FALSE,
                                         !.mergeObjects = FALSE,
                                         !.ignoreRevs = FALSE]
    /\ inv.req.query = { << "keepNull", "false" >>, << "mergeObjects", "false" >>,
                         << "ignoreRevs", "false" >> }

\* C16: the request of a replace or remove carries an If-Match header exactly
\* when the revision argument is supplied, with the argument as its value,
\* whatever _rev the payload holds; the body of a replace is the payload as it
\* was given, its _rev included.
C16_IfMatchOnlyFromArgument ==
    (Sent /\ inv.op \in {"replace", "remove"})
    => /\ inv.req.headers =
             (IF inv.ifm = None THEN {}
              ELSE { << "if-match", Unwrap(inv.ifm) >> })
       /\ inv.op = "replace" => inv.req.body = inv.doc

\* C16 witness: a replace with revision argument _1 and a payload whose _rev is
\* _d went out with If-Match: _1 and the payload unchanged.
C16_Witness ==
    /\ Sent /\ inv.op = "replace"
    /\ inv.ifm = Some(RevToken(1)) /\ inv.doc.rev = Some(StaleToken)
    /\ inv.req.headers = { << "if-match", RevToken(1) >> }
    /\ inv.req.body.rev = Some(StaleToken)

\* The header the resolver is to give for a value of DocumentReadOptions
\* (http::header::HeaderName holds a name in lower case).
ResolvedHeader(read_options) ==
    CASE read_options.tag = "IfMatch" -> Some(<< "if-match", read_options.value >>)
      [] read_options.tag = "IfNoneMatch" ->
            Some(<< "if-none-match", read_options.value >>)
      [] OTHER -> None

\* The resolver gives that header for every value it returns from.
ResolverGivesResolvedHeader ==
    \A r \in ReadOptionsSet :
        ~make_header_from_options(r).panic
        => make_header_from_options(r).header = ResolvedHeader(r)

\* C17: what make_header_from_options returns is (If-Match, rev) for
\* IfMatch(rev), (If-None-Match, rev) for IfNoneMatch(rev) and nothing for
\* NoHeader, with the bytes of rev unchanged; the request of a read or
\* read_header carries exactly that header and no other.
C17_ResolverIsVerbatim ==
    /\ ResolverGivesResolvedHeader
    /\ (Sent /\ inv.op \in ReadOps)
       => inv.req.headers =
             (IF inv.ropt = NoHeader THEN {}
              ELSE { Unwrap(ResolvedHeader(inv.ropt)) })

\* C17 witness: a read_header with IfNoneMatch(_d) went out with the single
\* header If-None-Match: _d.
C17_Witness ==
    /\ Sent /\ inv.op = "read_header"
    /\ inv.ropt = ReadOptions("IfNoneMatch", StaleToken)
    /\ inv.req.headers = { << "if-none-match", << 95, 100 >> >> }

\* C18: the request of a read_header is a HEAD request to the key, with the
\* conditional header a read would carry for the same options; its method is
\* not the method of a read.
C18_ReadHeaderIsHead ==
    (Sent /\ inv.op = "read_header")
    => /\ inv.req.method = "HEAD"
       /\ inv.req.method # ReadRequest(inv.key, inv.ropt).req.method
       /\ inv.req.key = inv.key
       /\ inv.req.headers = ReadRequest(inv.key, inv.ropt).req.headers

\* C19: each operation sends its method to its target: create POSTs the
\* payload to the document base url (empty key), read GETs the key with an
\* empty body, update PATCHes and replace PUTs the payload to the key, remove
\* DELETEs the key with an empty body.
C19_MethodTargetBody ==
    Sent
    => /\ inv.op = "create"
          => /\ inv.req.method = "POST" /\ inv.req.key = 0
             /\ inv.req.body = inv.doc /\ inv.req.body.json
       /\ inv.op = "read"
          => /\ inv.req.method = "GET" /\ inv.req.key = inv.key
             /\ inv.req.body = NoPayload /\ ~inv.req.body.json
       /\ inv.op = "update"
          => /\ inv.req.method = "PATCH" /\ inv.req.key = inv.key
             /\ inv.req.body = inv.doc /\ inv.req.body.json
       /\ inv.op = "replace"
          => /\ inv.req.method = "PUT" /\ inv.req.key = inv.key
             /\ inv.req.body = inv.doc /\ inv.req.body.json
       /\ inv.op = "remove"
          => /\ inv.req.method = "DELETE" /\ inv.req.key = inv.key
             /\ inv.req.body = NoPayload /\ ~inv.req.body.json

\* C19 witness: a remove went out as DELETE with an empty body, after a create
\* had stored the document.
C19_Witness ==
    /\ Sent /\ inv.op = "remove" /\ store[inv.key].present
    /\ inv.req.method = "DELETE" /\ inv.req.key = inv.key
    /\ ~inv.req.body.json

\* C20: the body of the request of an update is the patch the caller passed
\* and nothing else: an attribute the patch does not hold is not in the body,
\* whatever the stored document holds, and the request is the operation's
\* first transport call (the document is not read first).
C20_UpdateSendsPatchOnly ==
    (Sent /\ inv.op = "update")
    => /\ inv.req.method = "PATCH"
       /\ inv.req.body = inv.doc
       /\ inv.doc.no = 0 => inv.req.body.no = 0
       /\ inv.doc.desc = 0 => inv.req.body.desc = 0
       /\ inv.calls = 1

\* C20 witness: the stored document has "no" and "desc", the patch has only
\* "desc", and the body that went out has no "no".
C20_Witness ==
    /\ Sent /\ inv.op = "update"
    /\ store[inv.key].present /\ store[inv.key].no = 2
    /\ inv.doc.no = 0 /\ inv.doc.desc = 1
    /\ inv.req.body.no = 0 /\ inv.req.body.desc = 1

\* The kinds of error that come from a response of the server.
ResponseErrorKinds ==
    {"PreconditionFailed", "NotFound", "ServerError", "MalformedResponse"}

\* C21: an operation whose transport call failed (it was made and no response
\* came back) returns an error of the kind Transport, which is none of the
\* kinds a response gives; no body was interpreted and the call was not made
\* again.
C21_TransportErrorIsDistinct ==
    (Returned /\ inv.calls >= 1 /\ inv.resp = NoResponse)
    => /\ ~inv.result.ok
       /\ inv.result.kind = "Transport"
       /\ inv.result.kind \notin ResponseErrorKinds
       /\ inv.result = Err("Transport", 0)
       /\ inv.calls = 1

\* C21 witness: a replace of a stored document returned the transport's
\* failure and the document is as it was.
C21_Witness ==
    /\ Returned /\ inv.op = "replace" /\ inv.calls = 1
    /\ inv.resp = NoResponse /\ inv.result.kind = "Transport"
    /\ store[inv.key].present

\* A successful, answered write of a stored document that asked for both
\* snapshots and not for silence.
BothSnapshots(op) ==
    /\ Answered /\ inv.op = op /\ inv.result.ok /\ inv.before.present
    /\ inv.opts.returnNew /\ inv.opts.returnOld /\ ~inv.opts.silent

C25_DefaultCreateHasHeader ==
    (Answered /\ inv.op = "create" /\ inv.opts = DefaultOptions
       /\ inv.result.ok /\ ~inv.before.present)
    => /\ inv.result.kind = "Verbose" /\ inv.result.kind # "Silent"
       /\ IsSome(inv.result.hdr)
       /\ Unwrap(inv.result.hdr).key \in Keys
       /\ Len(Unwrap(inv.result.hdr).rev) > 0
       /\ Unwrap(inv.result.hdr).id =
             << CollectionName, Unwrap(inv.result.hdr).key >>
       /\ store[Unwrap(inv.result.hdr).key].present

\* C25 witness: a create without a _key in its payload came back with the
\* header of the key the server assigned.
C25_Witness ==
    /\ Answered /\ inv.op = "create" /\ inv.opts = DefaultOptions
    /\ inv.doc.key = 0 /\ inv.result.kind = "Verbose"
    /\ Unwrap(inv.result.hdr).id = << CollectionName, 1 >>
    /\ Unwrap(inv.result.hdr).rev = RevToken(1)

\* C26: for every revision string read, read_header, replace and remove build
\* their request and hand it to the transport: the operation does not fail or
\* abort in the client because of the revision (the payload of the replace
\* being one that serializes).
C26_NoClientSideRevisionFailure ==
    (Returned /\ inv.op \in {"read", "read_header", "replace", "remove"}
       /\ inv.doc.ser)
    => /\ inv.calls = 1
       /\ inv.result.kind # "Panic"

\* C28: a create, update or replace whose payload fails to serialize returns a
\* Serialization error without a transport call: no request exists, no
\* response was received, and the store is as it was.
C28_SerializationBeforeTransport ==
    /\ (Returned /\ inv.op \in {"create", "update", "replace"} /\ ~inv.doc.ser)
       => /\ inv.result = Err("Serialization", 0)
          /\ inv.calls = 0
          /\ inv.req = NoRequest
          /\ inv.resp = NoResponse
    /\ (inv.pc = "awaiting" /\ inv.op \in {"create", "update", "replace"})
       => inv.doc.ser /\ inv.req.body = inv.doc

\* C28 witness: a replace of a stored document with an If-Match argument and a
\* payload that does not serialize returned the Serialization error.
C28_Witness ==
    /\ Returned /\ inv.op = "replace" /\ ~inv.doc.ser /\ IsSome(inv.ifm)
    /\ inv.result.kind = "Serialization" /\ inv.calls = 0
    /\ store[inv.key].present

\* The document base url the handle was constructed with.
ConstructedBase == Collection(CollectionName).document_base_url

\* The key string as one path segment.
KeySegment(_key) ==
    IF _key.full THEN << "http://evil/" >> \o _key.text ELSE _key.text

\* C27: every document operation given a key sends its request to the
\* handle's document base url with the key appended as its last path segment:
\* the same host, the path of the collection's documents followed by the key,
\* and neither a query nor a fragment taken from the key.
C27_TargetIsKeyUnderDocumentBase ==
    target.op \in KeyOps =>
        /\ target.url.host = ConstructedBase.host
        /\ target.url.path =
               SubSeq(ConstructedBase.path, 1, Len(ConstructedBase.path) - 1)
                   \o << KeySegment(target.key) >>
        /\ target.url.query # "given"
        /\ ~ target.url.fragment

ArgumentsOf(i) == Call(i.op, i.key, i.doc, i.opts, i.ropt, i.ifm)

\* The request and the result of the invocation are those of its own call.
OwnRequestOwnResult(i) ==
    /\ i.pc = "awaiting" =>
           /\ i.req = RequestOf(ArgumentsOf(i)).req
           /\ i.calls = 1
    /\ i.pc = "done" /\ i.resp # NoResponse =>
           /\ i.req = RequestOf(ArgumentsOf(i)).req
           /\ i.result = deserialize_response(TargetOf(i.op), i.resp.body)
           /\ IsSome(i.result.hdr) =>
                  Unwrap(i.result.hdr).key =
                      IF i.op = "create" THEN i.doc.key ELSE i.key

====
